---- MODULE Spec2Model ----
(***************************************************************************)
(* A model of app.js, the bootstrap of the generator service: the module   *)
(* search-path sandbox, the construction of the connection options, the    *)
(* plugin directory scan, the per-name version resolution and load loop,   *)
(* and the process lifecycle (start, close grace timer, exit codes).       *)
(*                                                                         *)
(* Strings that the code inspects character by character (paths, plugin    *)
(* names, the whitelist argument, version strings) are sequences of        *)
(* one-character strings, so that prefix tests, split, trim and parsing    *)
(* are computed and not assumed.                                           *)
(***************************************************************************)
EXTENDS Integers, Sequences, FiniteSets, TLC

VARIABLES
    argv,                     \* the parsed command line, app.js:86-111
    fs,                       \* the file system and plugin metadata the scan reads
    options,                  \* the options handed to theGenerator.start
    whitelistedModuleFolders, \* global.whitelistedModuleFolders
    lookup,                   \* the last Module._nodeModulePaths call and its result
    pc,                       \* position of the process in its control flow
    fi,                       \* index of the folder the scan's forEach is at
    allPlugins,               \* scanPluginDirectories' allPlugins
    pluginMap,                \* pluginMap, as the sequence of its entries in key order
    gi,                       \* index of the group the load loop is at
    ci,                       \* index i within the group, 0 before the group is sorted
    totalPluginCount,         \* totalPluginCount
    events,                   \* registrations and collaborator calls so far, in order
    deferred,                 \* setupGenerator's deferred
    timers,                   \* deadlines of the pending close timers
    now,                      \* the clock
    exit,                     \* << >>, or << code, reason >> once stop or process.exit ran
    shutdownCalled            \* theGenerator.shutdown() was called by the exit handler

vars == << argv, fs, options, whitelistedModuleFolders, lookup, pc, fi, allPlugins,
           pluginMap, gi, ci, totalPluginCount, events, deferred, timers, now,
           exit, shutdownCalled >>

----------------------------------------------------------------------------
(* Bounds of the model *)

\* the clock stops advancing here when no timer is pending
MaxTime == 1000
\* the clock advances by this much in one step
TickStep == 500
\* at most this many close timers are pending
MaxClose == 1
\* at most this many plugins lie in the folder of the resolution scenarios
MaxPlugins == 3
\* at most this many folders are scanned in the sandbox scenarios
MaxFolders == 2

----------------------------------------------------------------------------
(* JavaScript values of the command line *)

Null == [t |-> "null"]
Undefined == [t |-> "undefined"]
Num(n) == [t |-> "number", v |-> n]
\* a string value; its characters are a sequence of one-character strings
Str(s) == [t |-> "string", v |-> s]
Bool(b) == [t |-> "boolean", v |-> b]

\* typeof x
TypeOf(x) == IF x.t \in {"null", "array"} THEN "object" ELSE x.t

\* the truthiness test of `a && b` and `if (a)`
Truthy(x) ==
    CASE x.t = "number" -> x.v # 0
      [] x.t = "string" -> x.v # << >>
      [] x.t = "boolean" -> x.v
      [] OTHER -> FALSE

----------------------------------------------------------------------------
(* Character strings *)

\* p.length <= s.length and s.substring(0, p.length) === p
IsPrefix(p, s) == Len(p) <= Len(s) /\ SubSeq(s, 1, Len(p)) = p

----------------------------------------------------------------------------
(* The module search-path sandbox, app.js:29-41 *)

\* the path segment "node_modules", kept as one token of a path
NM == "node_modules"

\* __dirname of app.js, the first entry of the whitelist
Dirname == << "/", "g" >>

\* Node's own Module._nodeModulePaths: <dir>/node_modules for from and each of
\* its ancestors, longest first, skipping directories named node_modules, and
\* /node_modules last
RECURSIVE NodeModulePathsFrom(_, _)
NodeModulePathsFrom(from, j) ==
    IF j = 0 THEN << << "/", NM >> >>
    ELSE IF /\ from[j] # "/"
            /\ (j = Len(from) \/ from[j + 1] = "/")
            /\ ~(from[j] = NM /\ j > 1 /\ from[j - 1] = "/")
         THEN << SubSeq(from, 1, j) \o << "/", NM >> >> \o NodeModulePathsFrom(from, j - 1)
         ELSE NodeModulePathsFrom(from, j - 1)

nodeModulePaths(from) == NodeModulePathsFrom(from, Len(from))

\* the filter callback's loop over the whitelist: "keep" when an entry is a
\* string prefix of path, "drop" when none is, "throw" when an entry that is
\* not a string is reached first (p.length of null)
RECURSIVE FilterVerdictFrom(_, _, _)
FilterVerdictFrom(path, wl, i) ==
    IF i > Len(wl) THEN "drop"
    ELSE IF wl[i].t # "string" THEN "throw"
    ELSE IF IsPrefix(wl[i].v, path) THEN "keep"
    ELSE FilterVerdictFrom(path, wl, i + 1)

FilterVerdict(path, wl) == FilterVerdictFrom(path, wl, 1)

\* the replaced Module._nodeModulePaths
ModuleNodeModulePaths(from, wl) ==
    LET raw == nodeModulePaths(from)
    IN  IF \E i \in 1..Len(raw) : FilterVerdict(raw[i], wl) = "throw"
        THEN [threw |-> TRUE, paths |-> << >>]
        ELSE [threw |-> FALSE,
              paths |-> SelectSeq(raw, LAMBDA q : FilterVerdict(q, wl) = "keep")]

----------------------------------------------------------------------------
(* The connection options, app.js:265-287 *)

\* the default of -p, app.js:73
DefaultPort == 49494

\* an object with no property
EmptyObject == [k \in {} |-> Null]

\* o with property k set to v
SetProp(o, k, v) == (k :> v) @@ o

\* the transport fields with the supplied password kept over pipes
TransportOptionsKeepPassword(a) ==
    IF \/ (TypeOf(a.input) = "number" /\ TypeOf(a.output) = "number")
       \/ (TypeOf(a.input) = "string" /\ TypeOf(a.output) = "string")
    THEN SetProp(SetProp(SetProp(EmptyObject, "inputFd", a.input),
                         "outputFd", a.output),
                 "password", a.password)
    ELSE IF TypeOf(a.port) = "number" /\ Truthy(a.host) /\ Truthy(a.password)
    THEN SetProp(SetProp(SetProp(EmptyObject, "port", a.port),
                         "hostname", a.host),
                 "password", a.password)
    ELSE EmptyObject

\* the transport fields with the socket test made whatever the pipe test said
TransportOptionsBoth(a) ==
    LET pipe == IF \/ (TypeOf(a.input) = "number" /\ TypeOf(a.output) = "number")
                   \/ (TypeOf(a.input) = "string" /\ TypeOf(a.output) = "string")
                THEN SetProp(SetProp(SetProp(EmptyObject, "inputFd", a.input),
                                     "outputFd", a.output),
                             "password", Null)
                ELSE EmptyObject
    IN  IF TypeOf(a.port) = "number" /\ Truthy(a.host) /\ Truthy(a.password)
        THEN SetProp(SetProp(SetProp(pipe, "port", a.port), "hostname", a.host),
                     "password", a.password)
        ELSE pipe

\* the transport fields, app.js:265-275
TransportOptions(a) ==
    IF \/ (TypeOf(a.input) = "number" /\ TypeOf(a.output) = "number")
       \/ (TypeOf(a.input) = "string" /\ TypeOf(a.output) = "string")
    THEN SetProp(SetProp(SetProp(EmptyObject, "inputFd", a.input),
                         "outputFd", a.output),
                 "password", Null)
    ELSE IF TypeOf(a.port) = "number" /\ Truthy(a.host) /\ Truthy(a.password)
    THEN SetProp(SetProp(SetProp(EmptyObject, "port", a.port),
                         "hostname", a.host),
                 "password", a.password)
    ELSE EmptyObject

\* a field copied only when it is a non-empty string, app.js:277-285
Passthrough(o, k, v) ==
    IF Truthy(v) /\ TypeOf(v) = "string" THEN SetProp(o, k, v) ELSE o

\* the options passed to theGenerator.start, app.js:265-287
BuildOptions(a) ==
    SetProp(
        Passthrough(
            Passthrough(
                Passthrough(TransportOptions(a), "photoshopVersion", a.photoshopVersion),
                "photoshopPath", a.photoshopPath),
            "photoshopBinaryPath", a.photoshopBinaryPath),
        "config", Str(<< "config" >>))

----------------------------------------------------------------------------
(* The plugin directory scan, app.js:145-242 *)

\* process.cwd()
Cwd == << "/", "w" >>

\* path.resolve(process.cwd(), directory) for a string: an absolute path is
\* kept, a relative one is appended to the working directory, and a trailing
\* separator is dropped
StripSlash(q) ==
    IF Len(q) > 1 /\ q[Len(q)] = "/" THEN SubSeq(q, 1, Len(q) - 1) ELSE q

resolve(base, q) ==
    IF q = << >> THEN base
    ELSE IF q[1] = "/" THEN StripSlash(q)
    ELSE StripSlash(base \o << "/" >> \o q)

\* checkIfPathDirectory, app.js:175-183: false for a file and, statSync
\* throwing, for a missing path
checkIfPathDirectory(absolutePath) == absolutePath \in fs.dirs

\* verifyPluginAtPath, app.js:150-173: the descriptor, or << >> for null
verifyPluginAtPath(absolutePath) ==
    LET m == fs.meta[absolutePath]
    IN  IF m.threw THEN << >>
        ELSE IF m.compatible
        THEN << [path |-> absolutePath,
                 metadata |-> [name |-> m.name, version |-> m.version]] >>
        ELSE << >>

\* the descriptors of the paths of a sequence that verify, in order
RECURSIVE VerifyAll(_)
VerifyAll(paths) ==
    IF paths = << >> THEN << >>
    ELSE verifyPluginAtPath(Head(paths)) \o VerifyAll(Tail(paths))

\* the child directories of absolutePath in listing order, app.js:205-211
ChildDirectories(absolutePath) ==
    LET names == fs.listing[absolutePath].names
        children == [i \in 1..Len(names) |-> resolve(absolutePath, names[i])]
    IN  SelectSeq(children, checkIfPathDirectory)

\* the scan of a folder that looks at the folder itself and never at its
\* children
listPluginsRootOnly(directory) ==
    IF TypeOf(directory) # "string"
    THEN [threw |-> TRUE, plugins |-> << >>, verified |-> << >>]
    ELSE LET absolutePath == resolve(Cwd, directory.v)
         IN  IF ~checkIfPathDirectory(absolutePath)
             THEN [threw |-> FALSE, plugins |-> << >>, verified |-> << >>]
             ELSE [threw |-> FALSE, plugins |-> verifyPluginAtPath(absolutePath),
                   verified |-> << absolutePath >>]

\* the scan of a folder that goes on below the children that are no plugins
listPluginsRecursing(directory) ==
    IF TypeOf(directory) # "string"
    THEN [threw |-> TRUE, plugins |-> << >>, verified |-> << >>]
    ELSE LET absolutePath == resolve(Cwd, directory.v)
             own == verifyPluginAtPath(absolutePath)
             children == ChildDirectories(absolutePath)
             RECURSIVE Below(_)
             Below(paths) ==
                 IF paths = << >> THEN << >>
                 ELSE (IF verifyPluginAtPath(Head(paths)) = << >>
                          /\ ~fs.listing[Head(paths)].threw
                       THEN ChildDirectories(Head(paths)) ELSE << >>)
                      \o Below(Tail(paths))
         IN  IF ~checkIfPathDirectory(absolutePath)
             THEN [threw |-> FALSE, plugins |-> << >>, verified |-> << >>]
             ELSE IF own # << >>
             THEN [threw |-> FALSE, plugins |-> own, verified |-> << absolutePath >>]
             ELSE IF fs.listing[absolutePath].threw
             THEN [threw |-> TRUE, plugins |-> << >>, verified |-> << absolutePath >>]
             ELSE [threw |-> FALSE,
                   plugins |-> VerifyAll(children \o Below(children)),
                   verified |-> << absolutePath >> \o children \o Below(children)]

\* listPluginsInDirectory, app.js:148-221: what it returns or that it threw,
\* and the paths it verified, in order
listPluginsInDirectory(directory) ==
    IF TypeOf(directory) # "string"
    THEN [threw |-> TRUE, plugins |-> << >>, verified |-> << >>]
    ELSE LET absolutePath == resolve(Cwd, directory.v)
             own == verifyPluginAtPath(absolutePath)
         IN  IF ~checkIfPathDirectory(absolutePath)
             THEN [threw |-> FALSE, plugins |-> << >>, verified |-> << >>]
             ELSE IF own # << >>
             THEN [threw |-> FALSE, plugins |-> own, verified |-> << absolutePath >>]
             ELSE IF fs.listing[absolutePath].threw
             THEN [threw |-> TRUE, plugins |-> << >>, verified |-> << absolutePath >>]
             ELSE [threw |-> FALSE,
                   plugins |-> VerifyAll(ChildDirectories(absolutePath)),
                   verified |-> << absolutePath >> \o ChildDirectories(absolutePath)]

\* the folders the scan iterates, app.js:223-225: an array as it is, anything
\* else as a one-element array
Folders(pluginfolder) ==
    IF pluginfolder.t = "array" THEN pluginfolder.v ELSE << pluginfolder >>

\* an array value
Arr(s) == [t |-> "array", v |-> s]

----------------------------------------------------------------------------
(* Semantic versions, as the semver package reads them (app.js:291, 311, 328) *)
(* A version string is a sequence of tokens: a number, ".", "-", "+", "v",  *)
(* or an identifier.                                                        *)

\* the numeric tokens and their values
NumTokens == {"0", "1", "2"}

NumVal(tok) == CASE tok = "0" -> 0 [] tok = "1" -> 1 [] tok = "2" -> 2

\* the identifier tokens of a pre-release or build part
IdentTokens == {"alpha", "beta", "b7"}

\* ASCII order of the identifiers, as compareIdentifiers orders them
IdentRank(tok) == CASE tok = "alpha" -> 1 [] tok = "b7" -> 2 [] tok = "beta" -> 3

\* the version without a leading "v"
StripV(v) == IF v # << >> /\ v[1] = "v" THEN Tail(v) ELSE v

\* major.minor.patch at the start of w
HasMain(w) ==
    /\ Len(w) >= 5
    /\ w[1] \in NumTokens /\ w[2] = "." /\ w[3] \in NumTokens
    /\ w[4] = "." /\ w[5] \in NumTokens

\* what follows major.minor.patch: nothing, -pre, +build or -pre+build
TailOk(r) ==
    \/ r = << >>
    \/ Len(r) = 2 /\ r[1] \in {"-", "+"} /\ r[2] \in IdentTokens \cup NumTokens
    \/ /\ Len(r) = 4 /\ r[1] = "-" /\ r[2] \in IdentTokens \cup NumTokens
       /\ r[3] = "+" /\ r[4] \in IdentTokens \cup NumTokens

\* semver.valid(v) is not null
valid(v) ==
    LET w == StripV(v)
    IN  HasMain(w) /\ TailOk(SubSeq(w, 6, Len(w)))

\* new SemVer(v) of a valid v; the build part is not kept for comparison
parse(v) ==
    LET w == StripV(v)
    IN  [major |-> NumVal(w[1]), minor |-> NumVal(w[3]), patch |-> NumVal(w[5]),
         prerelease |-> IF Len(w) >= 7 /\ w[6] = "-" THEN << w[7] >> ELSE << >>]

\* sign of x - y
Sign(x, y) == IF x < y THEN -1 ELSE IF x > y THEN 1 ELSE 0

\* compareIdentifiers: numeric identifiers below alphanumeric ones
compareIdentifiers(x, y) ==
    IF x \in NumTokens /\ y \in NumTokens THEN Sign(NumVal(x), NumVal(y))
    ELSE IF x \in NumTokens THEN -1
    ELSE IF y \in NumTokens THEN 1
    ELSE Sign(IdentRank(x), IdentRank(y))

\* SemVer.compareMain
compareMain(a, b) ==
    IF a.major # b.major THEN Sign(a.major, b.major)
    ELSE IF a.minor # b.minor THEN Sign(a.minor, b.minor)
    ELSE Sign(a.patch, b.patch)

\* SemVer.comparePre: a version with a pre-release is below the one without
comparePre(a, b) ==
    IF a.prerelease # << >> /\ b.prerelease = << >> THEN -1
    ELSE IF a.prerelease = << >> /\ b.prerelease # << >> THEN 1
    ELSE IF a.prerelease = << >> THEN 0
    ELSE compareIdentifiers(a.prerelease[1], b.prerelease[1])

\* semver.compare(a, b)
compare(a, b) ==
    LET x == parse(a)
        y == parse(b)
    IN  IF compareMain(x, y) # 0 THEN compareMain(x, y) ELSE comparePre(x, y)

\* semver.rcompare(a, b)
rcompare(a, b) == compare(b, a)

----------------------------------------------------------------------------
(* Whitelist filtering, version normalisation and grouping, app.js:295-318 *)

\* PLUGIN_KEY_PREFIX, app.js:54
PLUGIN_KEY_PREFIX == << "PLUGIN-" >>

\* the version given to a plugin whose version is not valid, app.js:312
ZeroVersion == << "0", ".", "0", ".", "0" >>

\* String.prototype.split(","): the fields between the commas, empty ones kept
RECURSIVE SplitFrom(_, _, _)
SplitFrom(s, i, cur) ==
    IF i > Len(s) THEN << cur >>
    ELSE IF s[i] = "," THEN << cur >> \o SplitFrom(s, i + 1, << >>)
    ELSE SplitFrom(s, i + 1, Append(cur, s[i]))

split(s) == SplitFrom(s, 1, << >>)

\* String.prototype.trim(): white space dropped at both ends
RECURSIVE trimLeft(_)
trimLeft(s) == IF s # << >> /\ Head(s) = " " THEN trimLeft(Tail(s)) ELSE s

RECURSIVE trimRight(_)
trimRight(s) ==
    IF s # << >> /\ s[Len(s)] = " " THEN trimRight(SubSeq(s, 1, Len(s) - 1)) ELSE s

trim(s) == trimRight(trimLeft(s))

\* shouldWhiteList, app.js:295
shouldWhiteList(a) == TypeOf(a.whiteListedPlugins) = "string"

\* whiteListedPlugins, app.js:298-300: the trimmed fields
whiteListedPlugins(a) ==
    LET fields == split(a.whiteListedPlugins.v)
    IN  [i \in 1..Len(fields) |-> trim(fields[i])]

\* the test of the whitelist inverted: a listed name is skipped
NotListedInverted(a, name) ==
    \E i \in 1..Len(whiteListedPlugins(a)) : whiteListedPlugins(a)[i] = name

\* whiteListedPlugins.indexOf(name) === -1
NotListed(a, name) ==
    \A i \in 1..Len(whiteListedPlugins(a)) : whiteListedPlugins(a)[i] # name

\* app.js:311-313: a version that is not valid becomes "0.0.0"
NormalizeVersion(p) ==
    IF valid(p.metadata.version) THEN p
    ELSE [p EXCEPT !.metadata.version = ZeroVersion]

\* app.js:314-317: p pushed on the entry of its key, a new entry made at the
\* end of the map when the key has none
AddToMap(map, p) ==
    LET key == PLUGIN_KEY_PREFIX \o p.metadata.name
    IN  IF \E k \in 1..Len(map) : map[k].key = key
        THEN [k \in 1..Len(map) |->
                 IF map[k].key = key
                 THEN [map[k] EXCEPT !.set = Append(@, p)]
                 ELSE map[k]]
        ELSE Append(map, [key |-> key, set |-> << p >>])

\* the grouping with a plugin of invalid version rejected instead of kept
RECURSIVE GroupFromRejecting(_, _, _, _)
GroupFromRejecting(a, plugins, i, map) ==
    IF i > Len(plugins) THEN map
    ELSE IF \/ shouldWhiteList(a) /\ NotListed(a, plugins[i].metadata.name)
            \/ ~valid(plugins[i].metadata.version)
    THEN GroupFromRejecting(a, plugins, i + 1, map)
    ELSE GroupFromRejecting(a, plugins, i + 1, AddToMap(map, plugins[i]))

\* plugins.forEach, app.js:306-318, from plugin i on
RECURSIVE GroupFrom(_, _, _, _)
GroupFrom(a, plugins, i, map) ==
    IF i > Len(plugins) THEN map
    ELSE IF shouldWhiteList(a) /\ NotListed(a, plugins[i].metadata.name)
    THEN GroupFrom(a, plugins, i + 1, map)
    ELSE GroupFrom(a, plugins, i + 1, AddToMap(map, NormalizeVersion(plugins[i])))

\* the pluginMap built from the scanned plugins, entries in Object.keys order
BuildPluginMap(a, plugins) == GroupFrom(a, plugins, 1, << >>)

\* the comparator with compare in the place of rcompare: ascending order
SortComparatorAscending(x, y) == compare(x.metadata.version, y.metadata.version)

\* the comparator of pluginSet.sort, app.js:327-329
SortComparator(x, y) == rcompare(x.metadata.version, y.metadata.version)

\* the group left as it was built, with no sort
SortOutcomesUnsorted(set) == {set}

\* what Array.prototype.sort may leave in pluginSet: a rearrangement that the
\* comparator finds in order; elements that compare equal in any order
SortOutcomes(set) ==
    { s \in { [i \in 1..Len(set) |-> set[f[i]]] : f \in Permutations(1..Len(set)) } :
        \A i, j \in 1..Len(set) : i < j => SortComparator(s[i], s[j]) <= 0 }

----------------------------------------------------------------------------
(* The process: start, scan, resolution, close timer, exit; app.js:137-143, *)
(* 244-384                                                                  *)

\* the delay of the close timer, app.js:262
GraceDelay == 1000

\* the exit codes, app.js:261, 368, 381
ExitClose == 0
ExitInitFailed == -3
ExitUncaught == -1

\* the message of the rejection when nothing was loaded, app.js:351
ZeroLoadedMessage == "Generator requires at least one plugin to function, zero were loaded."

\* the errors theGenerator.start may reject with
StartErrors == {"ECONNREFUSED"}

\* the rejection handler of init is queued: it runs before any other event
FailPending == pc = "idle" /\ deferred.state = "rejected"

\* an exception that escaped the callback of the start promise is thrown again
\* on the next tick, before any timer or event
Escaped == pc = "thrown"

\* the event loop is free to dispatch a timer or an event
LoopFree == pc \in {"starting", "idle"} /\ ~FailPending

\* the exit handler registered only once the start callback runs
ExitHandlerRegisteredByCallback == pc \notin {"init", "starting"}

\* the exit handler of app.js:253-257 is registered by setupGenerator, right
\* after the engine handle is created
ExitHandlerRegistered == pc # "init"

\* process.exit(exitCode): the exit handlers run, the registered one calling
\* theGenerator.shutdown(), and the process ends
processExit(exitCode, reason) ==
    /\ exit' = << exitCode, reason >>
    /\ shutdownCalled' = (shutdownCalled \/ ExitHandlerRegistered)
    /\ pc' = "exited"

\* stop, app.js:137-143; every caller gives a reason
stop(exitCode, reason) == processExit(exitCode, reason)

\* app.js:113-116: --help prints the usage and exits before anything is set up
ShowHelp ==
    /\ pc = "init"
    /\ Truthy(argv.help)
    /\ processExit(0, << "help" >>)
    /\ UNCHANGED << argv, fs, options, whitelistedModuleFolders, lookup, fi, allPlugins,
                    pluginMap, gi, ci, totalPluginCount, events, deferred, timers, now >>

\* init and setupGenerator up to the call of theGenerator.start, app.js:244-289
SetupGenerator ==
    /\ pc = "init"
    /\ ~Truthy(argv.help)
    /\ options' = BuildOptions(argv)
    /\ pc' = "starting"
    /\ UNCHANGED << argv, fs, whitelistedModuleFolders, lookup, fi, allPlugins,
                    pluginMap, gi, ci, totalPluginCount, events, deferred, timers, now,
                    exit, shutdownCalled >>

\* the start promise is fulfilled: the callback begins, app.js:290-294
StartSuccess ==
    /\ pc = "starting"
    /\ pc' = "scan"
    /\ fi' = 1
    /\ allPlugins' = << >>
    /\ totalPluginCount' = 0
    /\ pluginMap' = << >>
    /\ UNCHANGED << argv, fs, options, whitelistedModuleFolders, lookup, gi, ci,
                    events, deferred, timers, now, exit, shutdownCalled >>

\* the failure callback going on to the scan instead of rejecting
StartFailureScans ==
    /\ pc = "starting"
    /\ \E err \in StartErrors : deferred' = [state |-> "rejected", reason |-> err]
    /\ pc' = "scan"
    /\ fi' = 1
    /\ UNCHANGED << argv, fs, options, whitelistedModuleFolders, lookup, allPlugins,
                    pluginMap, gi, ci, totalPluginCount, events, timers, now,
                    exit, shutdownCalled >>

\* the start promise is rejected, app.js:356-358
StartFailure ==
    /\ pc = "starting"
    /\ \E err \in StartErrors : deferred' = [state |-> "rejected", reason |-> err]
    /\ pc' = "idle"
    /\ UNCHANGED << argv, fs, options, whitelistedModuleFolders, lookup, fi, allPlugins,
                    pluginMap, gi, ci, totalPluginCount, events, timers, now,
                    exit, shutdownCalled >>

\* a push of the folder's absolute path in the place of the folder as given
pushResolved(list, f) ==
    Append(list, IF f.t = "string" THEN Str(resolve(Cwd, f.v)) ELSE f)

\* a push that leaves out a folder the list already holds
pushIfAbsent(list, f) ==
    IF \E i \in 1..Len(list) : list[i] = f THEN list ELSE Append(list, f)

\* Array.prototype.push, as app.js:228 uses it on the whitelist
push(list, f) == Append(list, f)

\* the folder registered only after it was scanned
ScanFolderRegisteringLast ==
    /\ pc = "scan"
    /\ fi <= Len(Folders(argv.pluginfolder))
    /\ LET f == Folders(argv.pluginfolder)[fi]
           r == listPluginsInDirectory(f)
       IN  /\ whitelistedModuleFolders' = Append(whitelistedModuleFolders, f)
           /\ allPlugins' = IF r.threw THEN allPlugins ELSE allPlugins \o r.plugins
           /\ events' = events \o [i \in 1..Len(r.verified) |->
                                      [e |-> "verify", path |-> r.verified[i]]]
                               \o << [e |-> "register", folder |-> f] >>
    /\ fi' = fi + 1
    /\ UNCHANGED << argv, fs, options, lookup, pc, pluginMap, gi, ci, totalPluginCount,
                    deferred, timers, now, exit, shutdownCalled >>

\* the scan given up at the first folder that throws: the folders after it
\* are not looked at
ScanFolderAborting ==
    /\ pc = "scan"
    /\ fi <= Len(Folders(argv.pluginfolder))
    /\ LET f == Folders(argv.pluginfolder)[fi]
           r == listPluginsInDirectory(f)
       IN  /\ whitelistedModuleFolders' = Append(whitelistedModuleFolders, f)
           /\ allPlugins' = IF r.threw THEN allPlugins ELSE allPlugins \o r.plugins
           /\ events' = events \o << [e |-> "register", folder |-> f] >>
                               \o [i \in 1..Len(r.verified) |->
                                      [e |-> "verify", path |-> r.verified[i]]]
           /\ fi' = IF r.threw THEN Len(Folders(argv.pluginfolder)) + 1 ELSE fi + 1
    /\ UNCHANGED << argv, fs, options, lookup, pc, pluginMap, gi, ci, totalPluginCount,
                    deferred, timers, now, exit, shutdownCalled >>

\* one turn of folders.forEach, app.js:227-239
ScanFolder ==
    /\ pc = "scan"
    /\ fi <= Len(Folders(argv.pluginfolder))
    /\ LET f == Folders(argv.pluginfolder)[fi]
           r == listPluginsInDirectory(f)
       IN  /\ whitelistedModuleFolders' = push(whitelistedModuleFolders, f)
           /\ allPlugins' = IF r.threw THEN allPlugins ELSE allPlugins \o r.plugins
           /\ events' = events \o << [e |-> "register", folder |-> f] >>
                               \o [i \in 1..Len(r.verified) |->
                                      [e |-> "verify", path |-> r.verified[i]]]
    /\ fi' = fi + 1
    /\ UNCHANGED << argv, fs, options, lookup, pc, pluginMap, gi, ci, totalPluginCount,
                    deferred, timers, now, exit, shutdownCalled >>

\* the scan has returned: whitelist filter, versions and grouping, app.js:295-318
GroupPlugins ==
    /\ pc = "scan"
    /\ fi > Len(Folders(argv.pluginfolder))
    /\ pluginMap' = BuildPluginMap(argv, allPlugins)
    /\ pc' = "load"
    /\ gi' = 1
    /\ ci' = 0
    /\ UNCHANGED << argv, fs, options, whitelistedModuleFolders, lookup, fi, allPlugins,
                    totalPluginCount, events, deferred, timers, now, exit,
                    shutdownCalled >>

\* pluginSet.sort of the group the loop is at, app.js:323-329
SortGroup ==
    /\ pc = "load"
    /\ gi <= Len(pluginMap)
    /\ ci = 0
    /\ \E s \in SortOutcomes(pluginMap[gi].set) :
           pluginMap' = [pluginMap EXCEPT ![gi].set = s]
    /\ ci' = 1
    /\ UNCHANGED << argv, fs, options, whitelistedModuleFolders, lookup, pc, fi,
                    allPlugins, gi, totalPluginCount, events, deferred, timers, now,
                    exit, shutdownCalled >>

\* the load loop given up at the first loadPlugin call that throws: no group
\* after it is tried
LoadPluginGivingUp ==
    /\ pc = "load"
    /\ gi <= Len(pluginMap)
    /\ ci >= 1
    /\ \E loaded \in BOOLEAN :
        /\ events' = Append(events, [e |-> "load", plugin |-> pluginMap[gi].set[ci],
                                     key |-> pluginMap[gi].key, loaded |-> loaded])
        /\ totalPluginCount' = IF loaded THEN totalPluginCount + 1 ELSE totalPluginCount
        /\ IF loaded
           THEN gi' = gi + 1 /\ ci' = 0
           ELSE gi' = Len(pluginMap) + 1 /\ ci' = 0
    /\ UNCHANGED << argv, fs, options, whitelistedModuleFolders, lookup, pc, fi,
                    allPlugins, pluginMap, deferred, timers, now, exit, shutdownCalled >>

\* one turn of the for loop, app.js:331-344: loadPlugin returns or throws
LoadPlugin ==
    /\ pc = "load"
    /\ gi <= Len(pluginMap)
    /\ ci >= 1
    /\ \E loaded \in BOOLEAN :
        /\ events' = Append(events, [e |-> "load", plugin |-> pluginMap[gi].set[ci],
                                     key |-> pluginMap[gi].key, loaded |-> loaded])
        /\ totalPluginCount' = IF loaded THEN totalPluginCount + 1 ELSE totalPluginCount
        /\ IF loaded \/ ci = Len(pluginMap[gi].set)
           THEN gi' = gi + 1 /\ ci' = 0
           ELSE gi' = gi /\ ci' = ci + 1
    /\ UNCHANGED << argv, fs, options, whitelistedModuleFolders, lookup, pc, fi,
                    allPlugins, pluginMap, deferred, timers, now, exit, shutdownCalled >>

\* an exception escapes the callback of the start promise, from the scan or
\* from the resolution: the callback is abandoned, and done() throws the
\* exception again on the next tick, app.js:289-355
CallbackThrows ==
    /\ pc \in {"scan", "load"}
    /\ events' = Append(events, [e |-> "throw", at |-> pc])
    /\ pc' = "thrown"
    /\ UNCHANGED << argv, fs, options, whitelistedModuleFolders, lookup, fi, allPlugins,
                    pluginMap, gi, ci, totalPluginCount, deferred, timers, now, exit,
                    shutdownCalled >>

\* the deferred resolved whatever the count is
SettleResolving ==
    /\ pc = "load"
    /\ gi > Len(pluginMap)
    /\ deferred' = [state |-> "resolved"]
    /\ pc' = "idle"
    /\ UNCHANGED << argv, fs, options, whitelistedModuleFolders, lookup, fi, allPlugins,
                    pluginMap, gi, ci, totalPluginCount, events, timers, now, exit,
                    shutdownCalled >>

\* every group was tried: the deferred is settled, app.js:349-354
Settle ==
    /\ pc = "load"
    /\ gi > Len(pluginMap)
    /\ deferred' = IF totalPluginCount = 0
                   THEN [state |-> "rejected", reason |-> ZeroLoadedMessage]
                   ELSE [state |-> "resolved"]
    /\ pc' = "idle"
    /\ UNCHANGED << argv, fs, options, whitelistedModuleFolders, lookup, fi, allPlugins,
                    pluginMap, gi, ci, totalPluginCount, events, timers, now, exit,
                    shutdownCalled >>

\* the rejection handler of init, app.js:366-369
InitFail ==
    /\ FailPending
    /\ stop(ExitInitFailed, << "Generator failed to initialize: ", deferred.reason >>)
    /\ UNCHANGED << argv, fs, options, whitelistedModuleFolders, lookup, fi, allPlugins,
                    pluginMap, gi, ci, totalPluginCount, events, deferred, timers, now >>

\* the close handler at work only once the startup promise is resolved
CloseOnlyWhenRunning ==
    /\ LoopFree
    /\ deferred.state = "resolved"
    /\ Cardinality(timers) < MaxClose
    /\ timers' = timers \cup {now + GraceDelay}
    /\ UNCHANGED << argv, fs, options, whitelistedModuleFolders, lookup, pc, fi,
                    allPlugins, pluginMap, gi, ci, totalPluginCount, events, deferred,
                    now, exit, shutdownCalled >>

\* the close handler calling stop at once, with no timer
CloseStopsAtOnce ==
    /\ LoopFree
    /\ Cardinality(timers) < MaxClose
    /\ timers' = timers \cup {now}
    /\ stop(ExitClose, << "Generator close event" >>)
    /\ UNCHANGED << argv, fs, options, whitelistedModuleFolders, lookup, fi, allPlugins,
                    pluginMap, gi, ci, totalPluginCount, events, deferred, now >>

\* the engine emits "close": the timer is started, app.js:259-263
Close ==
    /\ LoopFree
    /\ Cardinality(timers) < MaxClose
    /\ timers' = timers \cup {now + GraceDelay}
    /\ UNCHANGED << argv, fs, options, whitelistedModuleFolders, lookup, pc, fi,
                    allPlugins, pluginMap, gi, ci, totalPluginCount, events, deferred,
                    now, exit, shutdownCalled >>

\* a close timer is due and its callback runs, app.js:260-262
TimerFire ==
    /\ LoopFree
    /\ \E d \in timers : d <= now
    /\ stop(ExitClose, << "Generator close event" >>)
    /\ UNCHANGED << argv, fs, options, whitelistedModuleFolders, lookup, fi, allPlugins,
                    pluginMap, gi, ci, totalPluginCount, events, deferred, timers, now >>

\* time passes
Tick ==
    /\ LoopFree
    /\ now < MaxTime \/ \E d \in timers : now < d
    /\ now' = now + TickStep
    /\ UNCHANGED << argv, fs, options, whitelistedModuleFolders, lookup, pc, fi,
                    allPlugins, pluginMap, gi, ci, totalPluginCount, events, deferred,
                    timers, exit, shutdownCalled >>

\* the handler exiting with the code of an initialization failure
UncaughtExceptionAsInitFailure ==
    /\ LoopFree \/ Escaped
    /\ stop(ExitInitFailed, << "Uncaught exception" >>)
    /\ UNCHANGED << argv, fs, options, whitelistedModuleFolders, lookup, fi, allPlugins,
                    pluginMap, gi, ci, totalPluginCount, events, deferred, timers, now >>

\* the uncaughtException handler, app.js:372-382: it runs for an exception
\* thrown by a callback the event loop dispatched, and for the one that
\* escaped the callback of the start promise
UncaughtException ==
    /\ LoopFree \/ Escaped
    /\ stop(ExitUncaught, << "Uncaught exception" >>)
    /\ UNCHANGED << argv, fs, options, whitelistedModuleFolders, lookup, fi, allPlugins,
                    pluginMap, gi, ci, totalPluginCount, events, deferred, timers, now >>

----------------------------------------------------------------------------
(* The inputs: command lines and file systems *)

\* plugin names
DemoName == << "d", "e", "m", "o" >>
OtherName == << "o", "t", "h", "e", "r" >>

\* version strings
V200 == << "2", ".", "0", ".", "0" >>
V100 == << "1", ".", "0", ".", "0" >>
V000Alpha == << "0", ".", "0", ".", "0", "-", "alpha" >>
VBad == << "1", ".", "x" >>

\* folders given with -f, and paths of the file system
RelA == << "A" >>
PathA == << "/", "w", "/", "A" >>
PathAx == << "/", "w", "/", "A", "/", "x" >>
PathAy == << "/", "w", "/", "A", "/", "y" >>
PathAxd == << "/", "w", "/", "A", "/", "x", "/", "d" >>
PathB == << "/", "B" >>
PathBSlash == << "/", "B", "/" >>
PathBc == << "/", "B", "/", "c" >>
PathF == << "/", "F" >>
PathU == << "/", "U" >>
PathP == << "/", "P" >>

\* the outcomes of getPluginMetadata and checkPluginCompatibility at a path
MetaThrows == [threw |-> TRUE]
Plugin(name, version) ==
    [threw |-> FALSE, compatible |-> TRUE, name |-> name, version |-> version]
Incompatible(name, version) ==
    [threw |-> FALSE, compatible |-> FALSE, name |-> name, version |-> version]

\* what readdirSync returns, or that it throws
Listing(names) == [threw |-> FALSE, names |-> names]
ListingThrows == [threw |-> TRUE, names |-> << >>]

\* the command line with the defaults of app.js:72-84
DefaultArgv ==
    [help |-> Undefined,
     port |-> Num(DefaultPort),
     host |-> Str(<< "127.0.0.1" >>),
     password |-> Str(<< "password" >>),
     input |-> Null,
     output |-> Null,
     pluginfolder |-> Null,
     photoshopVersion |-> Null,
     photoshopPath |-> Null,
     photoshopBinaryPath |-> Null,
     whiteListedPlugins |-> Null]

\* a file system: /w/A with the children x, y (directories) and f (a file),
\* /w/A/x/d below x, /B with the child c, the file /F, and /U, which cannot
\* be listed; /M does not exist
World(metaA, metaAx, metaAy, metaB, listA) ==
    [dirs |-> {PathA, PathAx, PathAy, PathAxd, PathB, PathBc, PathU},
     listing |-> (PathA :> Listing(listA)) @@ (PathAx :> Listing(<< << "d" >> >>))
                 @@ (PathAy :> Listing(<< >>)) @@ (PathAxd :> Listing(<< >>))
                 @@ (PathB :> Listing(<< << "c" >> >>)) @@ (PathBc :> Listing(<< >>))
                 @@ (PathU :> ListingThrows),
     meta |-> (PathA :> metaA) @@ (PathAx :> metaAx) @@ (PathAy :> metaAy)
              @@ (PathAxd :> Plugin(OtherName, V200)) @@ (PathB :> metaB)
              @@ (PathBc :> Plugin(DemoName, V200)) @@ (PathU :> MetaThrows)]

Worlds ==
    { World(metaA, metaAx, metaAy, metaB, listA) :
        metaA \in {MetaThrows, Plugin(DemoName, V100)},
        metaAx \in {MetaThrows, Plugin(DemoName, V100)},
        metaAy \in {Plugin(DemoName, V200), Plugin(OtherName, VBad),
                    Incompatible(OtherName, V100)},
        metaB \in {MetaThrows, Plugin(OtherName, V100)},
        listA \in { << << "x" >>, << "f" >>, << "y" >> >>,
                    << << "y" >>, << "x" >>, << "f" >> >> } }

\* the -f arguments
FolderArgs ==
    { Null, Str(RelA), Arr(<< Str(RelA), Str(PathB) >>),
      Arr(<< Str(PathF), Str(RelA) >>), Arr(<< Str(PathU), Str(PathB) >>),
      Arr(<< Str(PathB), Str(PathU), Str(RelA) >>) }

\* the --whiteListedPlugins arguments: none, "demo", " other ,x"
WhitelistArgs ==
    { Null, Str(DemoName),
      Str(<< " " >> \o OtherName \o << " ", ",", "x" >>) }

Argvs ==
    { [DefaultArgv EXCEPT !.pluginfolder = f, !.whiteListedPlugins = w] :
        f \in FolderArgs, w \in WhitelistArgs }
    \cup { [DefaultArgv EXCEPT !.help = Bool(TRUE)] }

\* the directories modules are required from
RequireDirs ==
    { Dirname \o << "/", "l", "i", "b" >>,
      PathAx, PathBc, << "/", "B", "x" >>, << "/", "e", "t", "c" >>,
      PathB \o << "/", NM, "/", "q" >> }

\* a module of the process is required from directory from: its search paths
\* are computed by the replaced Module._nodeModulePaths, app.js:32-41
ModulePaths ==
    /\ pc # "exited"
    /\ \E from \in RequireDirs :
           lookup' = [from |-> from,
                      whitelist |-> whitelistedModuleFolders,
                      result |-> ModuleNodeModulePaths(from, whitelistedModuleFolders)]
    /\ UNCHANGED << argv, fs, options, whitelistedModuleFolders, pc, fi, allPlugins,
                    pluginMap, gi, ci, totalPluginCount, events, deferred, timers, now,
                    exit, shutdownCalled >>

\* the state in which app.js begins, for a command line and a file system
InitWith(a, world) ==
    /\ argv = a
    /\ fs = world
    /\ options = EmptyObject
    /\ whitelistedModuleFolders = << Str(Dirname) >>
    /\ lookup = [from |-> << >>, whitelist |-> << >>,
                 result |-> [threw |-> FALSE, paths |-> << >>]]
    /\ pc = "init"
    /\ fi = 0
    /\ allPlugins = << >>
    /\ pluginMap = << >>
    /\ gi = 0
    /\ ci = 0
    /\ totalPluginCount = 0
    /\ events = << >>
    /\ deferred = [state |-> "pending"]
    /\ timers = {}
    /\ now = 0
    /\ exit = << >>
    /\ shutdownCalled = FALSE

Init == \E a \in Argvs, world \in Worlds : InitWith(a, world)

Next ==
    \/ ShowHelp
    \/ SetupGenerator
    \/ StartSuccess
    \/ StartFailure
    \/ ScanFolder
    \/ GroupPlugins
    \/ SortGroup
    \/ LoadPlugin
    \/ CallbackThrows
    \/ Settle
    \/ InitFail
    \/ Close
    \/ TimerFire
    \/ Tick
    \/ UncaughtException

Spec == Init /\ [][Next]_vars

----------------------------------------------------------------------------
(* Resolution scenarios: the folder /P holds up to MaxPlugins plugins, the  *)
(* children 1, 2, ... in listing order, of every name and version below     *)

ResolveNames == {DemoName, OtherName}

ResolveVersions == {V200, V100, V000Alpha, VBad}

\* the path of child i of /P
PathPi(i) == PathP \o << "/", ToString(i) >>

\* the file system in which child i of /P is the plugin metas[i]
ResolveWorld(metas) ==
    [dirs |-> {PathP} \cup { PathPi(i) : i \in 1..Len(metas) },
     listing |-> [q \in {PathP} \cup { PathPi(i) : i \in 1..Len(metas) } |->
                     IF q = PathP
                     THEN Listing([i \in 1..Len(metas) |-> << ToString(i) >>])
                     ELSE Listing(<< >>)],
     meta |-> [q \in {PathP} \cup { PathPi(i) : i \in 1..Len(metas) } |->
                  IF q = PathP THEN MetaThrows
                  ELSE LET i == CHOOSE k \in 1..Len(metas) : PathPi(k) = q
                       IN  metas[i]]]

ResolveWorlds ==
    { ResolveWorld(metas) :
        metas \in UNION { [1..n -> { Plugin(name, version) :
                                       name \in ResolveNames,
                                       version \in ResolveVersions }] :
                          n \in 1..MaxPlugins } }

ResolveArgvs ==
    { [DefaultArgv EXCEPT !.pluginfolder = Str(PathP), !.whiteListedPlugins = w] :
        w \in {Null, Str(<< " " >> \o OtherName \o << " ", ",", "x" >>)} }

ResolveInit == \E a \in ResolveArgvs, world \in ResolveWorlds : InitWith(a, world)

ResolveNext ==
    \/ SetupGenerator
    \/ StartSuccess
    \/ ScanFolder
    \/ GroupPlugins
    \/ SortGroup
    \/ LoadPlugin
    \/ Settle
    \/ InitFail

ResolveSpec == ResolveInit /\ [][ResolveNext]_vars

----------------------------------------------------------------------------
(* Option scenarios: every kind of value for the transport arguments *)

OptionArgvs ==
    { [DefaultArgv EXCEPT !.input = i, !.output = o, !.port = p, !.host = h,
                          !.password = pw, !.photoshopVersion = v,
                          !.photoshopPath = pp, !.photoshopBinaryPath = pb] :
        i \in {Null, Num(3), Num(0), Str(<< "/", "i" >>)},
        o \in {Null, Num(4), Str(<< "/", "o" >>), Bool(TRUE)},
        p \in {Num(DefaultPort), Str(<< "x" >>), Null},
        h \in {Str(<< "127.0.0.1" >>), Str(<< >>), Null},
        pw \in {Str(<< "password" >>), Str(<< >>), Num(0), Null},
        v \in {Null, Str(<< "15" >>)},
        pp \in {Null, Str(<< "/", "p", "s" >>)},
        pb \in {Null, Bool(TRUE)} }

OptionsInit == \E a \in OptionArgvs : InitWith(a, World(MetaThrows, MetaThrows,
                                                        Plugin(DemoName, V200), MetaThrows,
                                                        << << "x" >>, << "y" >> >>))

OptionsNext == SetupGenerator

OptionsSpec == OptionsInit /\ [][OptionsNext]_vars

----------------------------------------------------------------------------
(* Sandbox scenarios: up to MaxFolders folders are scanned, and modules are *)
(* required at any time                                                     *)

SandboxFolders == {Str(PathB), Str(RelA), Str(PathA), Str(PathBSlash), Null}

SandboxArgvs ==
    { [DefaultArgv EXCEPT !.pluginfolder = f] :
        f \in SandboxFolders
              \cup { Arr(q) : q \in UNION { [1..n -> SandboxFolders] : n \in 1..MaxFolders } } }

SandboxInit ==
    \E a \in SandboxArgvs :
        InitWith(a, World(MetaThrows, Plugin(DemoName, V100), Plugin(DemoName, V200),
                          Plugin(OtherName, V100), << << "x" >>, << "y" >> >>))

SandboxNext ==
    \/ SetupGenerator
    \/ StartSuccess
    \/ ScanFolder
    \/ ModulePaths

SandboxSpec == SandboxInit /\ [][SandboxNext]_vars

----------------------------------------------------------------------------
(* The process under the scheduling of Node: time passes, a due timer is    *)
(* fired, a callback that has begun runs to its end, and a queued rejection *)
(* handler is run                                                           *)

Fairness ==
    /\ WF_vars(Tick)
    /\ WF_vars(TimerFire)
    /\ WF_vars(ScanFolder)
    /\ WF_vars(GroupPlugins)
    /\ WF_vars(SortGroup)
    /\ WF_vars(LoadPlugin)
    /\ WF_vars(Settle)
    /\ WF_vars(InitFail)
    /\ WF_vars(Escaped /\ UncaughtException)

\* the inputs of the fair runs: the folder A, or the file /F and then A
LiveWorlds ==
    { World(MetaThrows, metaAx, metaAy, MetaThrows, << << "x" >>, << "f" >>, << "y" >> >>) :
        metaAx \in {MetaThrows, Plugin(DemoName, V100)},
        metaAy \in {Plugin(DemoName, V200), Plugin(OtherName, VBad),
                    Incompatible(OtherName, V100)} }

LiveArgvs ==
    { [DefaultArgv EXCEPT !.pluginfolder = f, !.whiteListedPlugins = w] :
        f \in {Str(RelA), Arr(<< Str(PathF), Str(RelA) >>)},
        w \in {Null, Str(DemoName)} }
    \cup { [DefaultArgv EXCEPT !.help = Bool(TRUE)] }

LiveInit == \E a \in LiveArgvs, world \in LiveWorlds : InitWith(a, world)

FairSpec == LiveInit /\ [][Next]_vars /\ Fairness

----------------------------------------------------------------------------
(* The properties of app.js and what they speak of *)

\* the loadPlugin calls made for the group of a key, in order
LoadsOf(key) == SelectSeq(events, LAMBDA ev : ev.e = "load" /\ ev.key = key)

\* the callback of the start promise has run to its end
CallbackDone == deferred.state # "pending" /\ events # << >>

\* the scanned plugins have been put into their groups
Grouped == gi >= 1

\* the loadPlugin calls made so far, in order
Loads == SelectSeq(events, LAMBDA ev : ev.e = "load")

\* the candidates of a group have pairwise different precedence
DistinctVersions(set) ==
    \A i, j \in 1..Len(set) :
        i # j => compare(set[i].metadata.version, set[j].metadata.version) # 0

\* the place of candidate c of a group in descending order of version
Rank(set, c) ==
    1 + Cardinality({ j \in 1..Len(set) :
                        compare(set[j].metadata.version, c.metadata.version) > 0 })

----------------------------------------------------------------------------
(* C1: in a group whose candidates have the versions v1 > v2 > ... > vn,    *)
(* loadPlugin is called on them in that order, no call follows a call that  *)
(* returned, and once the groups are done the calls of the group end with   *)
(* the first candidate that loaded, or cover all n candidates if none did.  *)
C1_DescendingFirstSuccess ==
    pc \in {"load", "idle", "exited"} =>
        \A k \in 1..Len(pluginMap) :
            LET set == pluginMap[k].set
                L == LoadsOf(pluginMap[k].key)
            IN  DistinctVersions(set) =>
                    /\ Len(L) <= Len(set)
                    /\ \A i \in 1..Len(L) :
                          /\ Rank(set, L[i].plugin) = i
                          /\ \E j \in 1..Len(set) : set[j] = L[i].plugin
                          /\ i < Len(L) => ~L[i].loaded
                    /\ CallbackDone =>
                          /\ L # << >>
                          /\ L[Len(L)].loaded \/ Len(L) = Len(set)

\* three versions of one name: the highest failed, the second loaded, and the
\* third was not tried
C1_Witness ==
    /\ pc = "idle"
    /\ \E k \in 1..Len(pluginMap) :
          LET L == LoadsOf(pluginMap[k].key)
          IN  /\ Len(pluginMap[k].set) = 3
              /\ DistinctVersions(pluginMap[k].set)
              /\ Len(L) = 2
              /\ ~L[1].loaded /\ L[2].loaded
              /\ totalPluginCount = 1

----------------------------------------------------------------------------
\* group k of pluginMap has been sorted
Sorted(k) == k < gi \/ (k = gi /\ ci >= 1)

\* the scanned descriptor at path q had a version that is not valid
Malformed(q) ==
    \E i \in 1..Len(allPlugins) :
        allPlugins[i].path = q /\ ~valid(allPlugins[i].metadata.version)

\* the scanned descriptors that pass the whitelist filter are all in a group
NoneDropped ==
    \A i \in 1..Len(allPlugins) :
        ~(shouldWhiteList(argv) /\ NotListed(argv, allPlugins[i].metadata.name)) =>
            \E k \in 1..Len(pluginMap) :
                /\ pluginMap[k].key = PLUGIN_KEY_PREFIX \o allPlugins[i].metadata.name
                /\ \E j \in 1..Len(pluginMap[k].set) :
                      pluginMap[k].set[j].path = allPlugins[i].path

\* once the groups are done, a group none of whose candidates loaded had a
\* load attempt on every candidate
AllTriedIfNoneLoaded ==
    CallbackDone =>
        \A k \in 1..Len(pluginMap) :
            LET L == LoadsOf(pluginMap[k].key)
            IN  (\A i \in 1..Len(L) : ~L[i].loaded) =>
                    \A j \in 1..Len(pluginMap[k].set) :
                        \E i \in 1..Len(L) : L[i].plugin.path = pluginMap[k].set[j].path

(* C2, as stated: a descriptor whose version is not valid stays in its      *)
(* group, and in the sorted group it comes strictly after every candidate   *)
(* that has a valid version, whatever that version is.                      *)
C2_AfterEveryValidVersion ==
    Grouped =>
        /\ NoneDropped
        /\ AllTriedIfNoneLoaded
        /\ \A k \in 1..Len(pluginMap) :
              Sorted(k) =>
                  \A i, j \in 1..Len(pluginMap[k].set) :
                      /\ Malformed(pluginMap[k].set[i].path)
                      /\ ~Malformed(pluginMap[k].set[j].path)
                      => j < i

(* C2, amended: a descriptor whose version is not valid stays in its group  *)
(* and is tried if every candidate before it fails; it is ordered as        *)
(* version 0.0.0, so it comes strictly after every candidate whose valid    *)
(* version is above 0.0.0.                                                  *)
C2_OrderedAsZero ==
    Grouped =>
        /\ NoneDropped
        /\ AllTriedIfNoneLoaded
        /\ \A k \in 1..Len(pluginMap) :
              Sorted(k) =>
                  \A i, j \in 1..Len(pluginMap[k].set) :
                      /\ Malformed(pluginMap[k].set[i].path)
                      /\ ~Malformed(pluginMap[k].set[j].path)
                      /\ compare(pluginMap[k].set[j].metadata.version, ZeroVersion) > 0
                      => j < i

\* a group with a candidate of invalid version and one of version 2.0.0: both
\* failed to load, the valid one first
C2_Witness ==
    /\ pc = "idle"
    /\ \E k \in 1..Len(pluginMap) :
          LET L == LoadsOf(pluginMap[k].key)
          IN  /\ Len(L) = 2
              /\ ~L[1].loaded /\ ~L[2].loaded
              /\ ~Malformed(L[1].plugin.path) /\ L[1].plugin.metadata.version = V200
              /\ Malformed(L[2].plugin.path)

----------------------------------------------------------------------------
\* the entries of the --whiteListedPlugins argument: its comma-separated
\* fields, trimmed
WhitelistEntries ==
    LET fields == split(argv.whiteListedPlugins.v)
    IN  { trim(fields[i]) : i \in 1..Len(fields) }

(* C3: in whitelist mode a scanned descriptor whose name is none of the     *)
(* whitelist entries is in no group, and loadPlugin is never called on its  *)
(* path.                                                                    *)
C3_UnlistedNeverLoaded ==
    argv.whiteListedPlugins.t = "string" =>
        \A i \in 1..Len(allPlugins) :
            allPlugins[i].metadata.name \notin WhitelistEntries =>
                /\ \A k \in 1..Len(pluginMap) :
                      \A j \in 1..Len(pluginMap[k].set) :
                          pluginMap[k].set[j].path # allPlugins[i].path
                /\ \A n \in 1..Len(Loads) :
                      Loads[n].plugin.path # allPlugins[i].path

\* whitelist mode, a scanned plugin of an unlisted name and one of a listed
\* name; the groups are done and only the listed one was tried
C3_Witness ==
    /\ argv.whiteListedPlugins.t = "string"
    /\ pc = "idle"
    /\ \E i \in 1..Len(allPlugins) : allPlugins[i].metadata.name \notin WhitelistEntries
    /\ \E i \in 1..Len(allPlugins) : allPlugins[i].metadata.name \in WhitelistEntries
    /\ Loads # << >>
    /\ Len(pluginMap) = 1

----------------------------------------------------------------------------
\* no loadPlugin call has returned
NoneLoaded == \A n \in 1..Len(Loads) : ~Loads[n].loaded

\* what stop is called with when the startup promise is rejected with err
InitFailedExit(err) == << ExitInitFailed, << "Generator failed to initialize: ", err >> >>

(* C4: once the start callback has run and no plugin was loaded (nothing    *)
(* compatible was scanned, the whitelist filtered every descriptor out, or  *)
(* every loadPlugin call threw), the loaded count is zero, the startup      *)
(* promise is rejected with the zero-plugins message, the rejection handler *)
(* is the only next step and exits with code -3; the promise is resolved    *)
(* only with at least one plugin loaded.                                    *)
C4_ZeroLoadedFails ==
    /\ [](/\ CallbackDone /\ (allPlugins = << >> \/ pluginMap = << >> \/ NoneLoaded) =>
               /\ totalPluginCount = 0
               /\ deferred = [state |-> "rejected", reason |-> ZeroLoadedMessage]
               /\ pc = "idle" => ENABLED InitFail
               /\ pc = "exited" => exit = InitFailedExit(ZeroLoadedMessage)
          /\ deferred.state = "resolved" => totalPluginCount >= 1 /\ ~NoneLoaded)
    /\ [][deferred = [state |-> "rejected", reason |-> ZeroLoadedMessage] /\ pc = "idle"
             => exit' = InitFailedExit(ZeroLoadedMessage)]_vars

\* two groups were tried, every loadPlugin call threw, and the process has
\* exited
C4_Witness ==
    /\ pc = "exited"
    /\ Len(pluginMap) = 2
    /\ Len(Loads) >= 2
    /\ NoneLoaded
    /\ exit[1] = ExitInitFailed

----------------------------------------------------------------------------
\* path q is the directory root or lies below it
Inside(q, root) ==
    \/ q = StripSlash(root)
    \/ IsPrefix(StripSlash(root) \o << "/" >>, q)

(* C5: every path the search-path filter returns lies inside (is, or is     *)
(* below) a root that was registered before the call; a path in a sibling   *)
(* directory whose name only starts with the name of a root is not returned.*)
C5_OnlyInsideRoots ==
    \A n \in 1..Len(lookup.result.paths) :
        \E r \in 1..Len(lookup.whitelist) :
            /\ lookup.whitelist[r].t = "string"
            /\ Inside(lookup.result.paths[n], lookup.whitelist[r].v)

----------------------------------------------------------------------------
\* the scenario of C6: the one folder A, which is no plugin itself, with the
\* children x = demo 1.0.0 and y = demo 2.0.0, and no whitelist that leaves
\* demo out
DemoScenario ==
    /\ argv.pluginfolder = Str(RelA)
    /\ ~Truthy(argv.help)
    /\ fs.meta[PathA] = MetaThrows
    /\ fs.meta[PathAx] = Plugin(DemoName, V100)
    /\ fs.meta[PathAy] = Plugin(DemoName, V200)
    /\ argv.whiteListedPlugins.t = "string" => DemoName \in WhitelistEntries

\* the names and versions of the plugins whose loadPlugin call returned
LoadedSet ==
    { [name |-> Loads[n].plugin.metadata.name,
       version |-> Loads[n].plugin.metadata.version] :
        n \in { m \in 1..Len(Loads) : Loads[m].loaded } }

(* C6: in the scenario, in either listing order of A, the first loadPlugin  *)
(* call is on the 2.0.0 candidate; the start callback makes at least one    *)
(* call; and when the call on 2.0.0 threw and the call on 1.0.0 returned,   *)
(* the loaded set is {demo 1.0.0}, the count is 1 and the startup promise   *)
(* is resolved.                                                             *)
C6_DemoFallsBackToOlder ==
    DemoScenario =>
        /\ Loads # << >> => Loads[1].plugin.path = PathAy
        /\ CallbackDone => Loads # << >>
        /\ (CallbackDone /\ ~Loads[1].loaded /\ Len(Loads) >= 2 /\ Loads[2].loaded) =>
               /\ Len(Loads) = 2
               /\ Loads[2].plugin.path = PathAx
               /\ LoadedSet = {[name |-> DemoName, version |-> V100]}
               /\ totalPluginCount = 1
               /\ deferred.state = "resolved"
        /\ (CallbackDone /\ ~Loads[1].loaded) => Len(Loads) = 2

\* the scenario with y listed before x: 2.0.0 threw, 1.0.0 loaded, startup
\* succeeded
C6_Witness ==
    /\ DemoScenario
    /\ fs.listing[PathA].names[1] = << "x" >>
    /\ pc = "idle"
    /\ Len(Loads) = 2
    /\ ~Loads[1].loaded /\ Loads[2].loaded
    /\ deferred.state = "resolved"

----------------------------------------------------------------------------
\* the options have been constructed
OptionsBuilt == pc # "init" /\ ~Truthy(argv.help)

\* what reading property k of the options yields
Field(k) == IF k \in DOMAIN options THEN options[k] ELSE Undefined

\* the options carry no value for property k: it is not set, or set to null
Absent(k) == Field(k) \in {Undefined, Null}

\* an argument was supplied: a value other than none, "" and 0
Supplied(x) == x \notin {Undefined, Null, Str(<< >>), Num(0), Bool(FALSE)}

\* the handles are both numbers, or both strings
SameKindHandles ==
    \/ argv.input.t = "number" /\ argv.output.t = "number"
    \/ argv.input.t = "string" /\ argv.output.t = "string"

\* the options select the pipe transport, the socket transport
PipeChosen ==
    /\ {"inputFd", "outputFd"} \subseteq DOMAIN options
    /\ options.inputFd = argv.input /\ options.outputFd = argv.output

SocketChosen ==
    /\ {"port", "hostname", "password"} \subseteq DOMAIN options
    /\ options.port = argv.port /\ options.hostname = argv.host
    /\ options.password = argv.password

C8_OneTransport ==
    OptionsBuilt =>
        /\ \/ {"inputFd", "outputFd"} \cap DOMAIN options = {}
           \/ {"port", "hostname"} \cap DOMAIN options = {}
        /\ PipeChosen <=> SameKindHandles
        /\ ~SameKindHandles =>
              /\ SocketChosen <=>
                    argv.port.t = "number" /\ Supplied(argv.host) /\ Supplied(argv.password)
              /\ ~SocketChosen =>
                    {"inputFd", "outputFd", "port", "hostname", "password"}
                        \cap DOMAIN options = {}

\* handles of mixed kinds with port, host and password: the socket is chosen
C8_Witness ==
    /\ pc = "starting"
    /\ argv.input.t = "number" /\ argv.output.t = "string"
    /\ SocketChosen

----------------------------------------------------------------------------
\* what stop is called with by the callback of the close timer
CloseExit == << ExitClose, << "Generator close event" >> >>

(* C9: a close event does not end the process: it starts a timer of 1000    *)
(* time units; the process exits through the close handler only with a      *)
(* timer that is due, and then with code 0; and, time passing and due       *)
(* timers being fired, a close event is always followed by the exit of the  *)
(* process, with code 0 unless a fatal condition (code -1 or -3) ended it   *)
(* first.                                                                   *)
C9_CloseGraceThenExit ==
    /\ [][timers' # timers =>
             /\ timers' = timers \cup {now + GraceDelay}
             /\ pc' # "exited" /\ exit' = << >>]_vars
    /\ [](/\ exit # << >> /\ exit[2] = << "Generator close event" >> =>
               exit[1] = 0 /\ \E d \in timers : d <= now
          /\ \A d \in timers : d >= GraceDelay)
    /\ (timers # {}) ~>
           (pc = "exited" /\ (exit = CloseExit \/ exit[1] \in {ExitUncaught, ExitInitFailed}))

\* the close timer has expired and its callback has ended the process
C9_Witness ==
    /\ pc = "exited"
    /\ exit = CloseExit
    /\ \E d \in timers : d <= now
    /\ deferred.state = "resolved"

(* C10: when the engine start rejects, no folder is scanned, no root is     *)
(* registered, loadPlugin is not called, the rejection handler is the only  *)
(* next step and exits with code -3 and a reason that holds the error;      *)
(* scanning and loading happen only in the callback of a start that         *)
(* succeeded.                                                               *)
C10_StartFailureExits ==
    /\ [](/\ (deferred.state = "rejected" /\ deferred.reason \in StartErrors) =>
               /\ events = << >>
               /\ allPlugins = << >> /\ pluginMap = << >>
               /\ whitelistedModuleFolders = << Str(Dirname) >>
               /\ pc = "idle" => ENABLED InitFail
               /\ pc = "exited" => exit = InitFailedExit(deferred.reason)
          /\ pc \in {"init", "starting"} =>
               events = << >> /\ whitelistedModuleFolders = << Str(Dirname) >>)
    /\ [][(deferred.state = "rejected" /\ deferred.reason \in StartErrors /\ pc = "idle")
             => exit' = InitFailedExit(deferred.reason)]_vars
    /\ [][(events' # events \/ whitelistedModuleFolders' # whitelistedModuleFolders)
             => pc \in {"scan", "load"} /\ deferred.state = "pending"]_vars

\* the start was rejected and the process has exited
C10_Witness ==
    /\ pc = "exited"
    /\ deferred.state = "rejected" /\ deferred.reason \in StartErrors
    /\ exit[1] = ExitInitFailed

----------------------------------------------------------------------------
\* the lifecycle states: the start is pending, the engine runs, a close timer
\* is pending
Starting == pc = "starting"
Running == pc = "idle" /\ deferred.state = "resolved"
Closing == pc \in {"starting", "idle"} /\ ~FailPending /\ timers # {}

\* what stop is called with by the uncaughtException handler
FatalExit == << ExitUncaught, << "Uncaught exception" >> >>

\* an exception has escaped the scan or the resolution
EscapedBefore == \E n \in 1..Len(events) : events[n].e = "throw"

(* C11: in each lifecycle state (Starting, Running, Closing with the timer   *)
(* pending) an uncaught exception is handled, and so is the exception that  *)
(* escaped the scan or the resolution; the handler ends the process in that *)
(* one step with exit code -1, which is neither -3 nor 0; after an escaped  *)
(* exception the only next step is that exit, so the process never exits    *)
(* with code 0, whatever close timer is pending.                            *)
C11_UncaughtExitsFatal ==
    /\ [](/\ ExitUncaught \notin {ExitInitFailed, ExitClose}
          /\ (Starting \/ Running \/ Closing \/ Escaped) => ENABLED UncaughtException
          /\ (exit # << >> /\ exit[2] = << "Uncaught exception" >>) => exit = FatalExit
          /\ (EscapedBefore /\ pc = "exited") => exit = FatalExit /\ exit[1] # 0)
    /\ [][Escaped => pc' = "exited" /\ exit' = FatalExit]_vars
    /\ [][(exit' # exit /\ exit'[2] = << "Uncaught exception" >>) =>
             /\ Starting \/ Running \/ Closing \/ Escaped
             /\ pc' = "exited" /\ exit'[1] = -1]_vars

\* an exception escaped the resolution while a close timer was pending, and
\* the process exited with the fatal code
C11_Witness ==
    /\ pc = "exited"
    /\ exit = FatalExit
    /\ \E n \in 1..Len(events) : events[n].e = "throw" /\ events[n].at = "load"
    /\ timers # {}

----------------------------------------------------------------------------
\* the engine handle was created: setupGenerator has run, app.js:246
EngineCreated == "config" \in DOMAIN options

(* C12: whenever the process has exited after the engine handle was         *)
(* created (close timer, start failure, zero plugins loaded, uncaught       *)
(* exception, from whatever state), theGenerator.shutdown() was called, and *)
(* it was called by the step that exits; an exit before the handle exists   *)
(* (the usage message) calls no shutdown.                                   *)
C12_ShutdownAtEveryExit ==
    /\ [](/\ (pc = "exited" /\ EngineCreated) => shutdownCalled
          /\ (pc = "exited" /\ EngineCreated) =>
                 \/ exit = CloseExit
                 \/ exit = FatalExit
                 \/ exit[1] = ExitInitFailed
          /\ pc # "exited" => ~shutdownCalled
          /\ (pc = "exited" /\ ~EngineCreated) => ~shutdownCalled)
    /\ [][(pc' = "exited" /\ pc # "exited" /\ EngineCreated) =>
             shutdownCalled' /\ ~shutdownCalled]_vars

\* an uncaught exception ended the process while the start was pending, and
\* the engine was shut down
C12_Witness ==
    /\ pc = "exited"
    /\ exit = FatalExit
    /\ deferred.state = "pending" /\ events = << >>
    /\ EngineCreated
    /\ shutdownCalled

----------------------------------------------------------------------------
\* the collaborator finds a compatible plugin at path q
Compatible(q) == ~fs.meta[q].threw /\ fs.meta[q].compatible

\* the directories directly below the directory q
ChildrenOf(q) ==
    { d \in fs.dirs :
        /\ IsPrefix(q \o << "/" >>, d)
        /\ Len(d) > Len(q) + 1
        /\ \A i \in (Len(q) + 2)..Len(d) : d[i] # "/" }

\* the paths of a sequence of descriptors, of a sequence of verify records
PathsOf(plugins) == [i \in 1..Len(plugins) |-> plugins[i].path]
VerifiedIn(evs) ==
    LET v == SelectSeq(evs, LAMBDA ev : ev.e = "verify")
    IN  [i \in 1..Len(v) |-> v[i].path]

\* the sequence s names every element of the set S once, and nothing else
Enumerates(s, S) ==
    /\ { s[i] : i \in 1..Len(s) } = S
    /\ Len(s) = Cardinality(S)

(* C13: the scan of a folder that is a directory and is a compatible plugin *)
(* yields the descriptor of the folder and nothing else, and verifies no    *)
(* other path; the scan of a directory that is no compatible plugin yields, *)
(* when it returns, one descriptor for each directory directly below the    *)
(* folder that is a compatible plugin and nothing else; whether it returns  *)
(* or throws, it verifies only the folder and directories directly below    *)
(* it, never a directory two or more levels below.                          *)
C13_OneLevelScan ==
    [][(pc = "scan" /\ fi' = fi + 1 /\ Folders(argv.pluginfolder)[fi].t = "string") =>
          LET abs == resolve(Cwd, Folders(argv.pluginfolder)[fi].v)
              yield == SubSeq(allPlugins', Len(allPlugins) + 1, Len(allPlugins'))
              seen == VerifiedIn(SubSeq(events', Len(events) + 1, Len(events')))
          IN  abs \in fs.dirs =>
                  /\ SubSeq(allPlugins', 1, Len(allPlugins)) = allPlugins
                  /\ \A i \in 1..Len(yield) :
                        /\ Compatible(yield[i].path)
                        /\ yield[i].metadata = [name |-> fs.meta[yield[i].path].name,
                                                version |-> fs.meta[yield[i].path].version]
                  /\ IF Compatible(abs)
                     THEN PathsOf(yield) = << abs >> /\ seen = << abs >>
                     ELSE /\ \A i \in 1..Len(seen) : seen[i] \in {abs} \cup ChildrenOf(abs)
                          /\ \/ fs.listing[abs].threw /\ yield = << >>
                             \/ /\ ~fs.listing[abs].threw
                                /\ Enumerates(PathsOf(yield),
                                              { d \in ChildrenOf(abs) : Compatible(d) })]_vars

\* the folder A, no plugin itself, was scanned: of its children x and y only
\* y was yielded, and the plugin d below x was not
C13_Witness ==
    /\ pc = "load"
    /\ argv.pluginfolder = Str(RelA)
    /\ ~Compatible(PathA) /\ ~Compatible(PathAx) /\ Compatible(PathAy)
    /\ Compatible(PathAxd)
    /\ PathsOf(allPlugins) = << PathAy >>

----------------------------------------------------------------------------
\* the folders of the scan, and the folders registered so far, in order
ScanInput == Folders(argv.pluginfolder)
Registered ==
    LET r == SelectSeq(events, LAMBDA ev : ev.e = "register")
    IN  [i \in 1..Len(r) |-> r[i].folder]

\* the scan has gone through its folders and returned
ScanReturned == fi > Len(ScanInput)

\* the scan of folder f fails: f is no path, is not a directory, or is a
\* directory that is no plugin and cannot be listed
ScanFails(f) ==
    \/ f.t # "string"
    \/ resolve(Cwd, f.v) \notin fs.dirs
    \/ ~Compatible(resolve(Cwd, f.v)) /\ fs.listing[resolve(Cwd, f.v)].threw

\* the paths a folder whose scan does not fail has to yield
Expected(f) ==
    LET abs == resolve(Cwd, f.v)
    IN  IF Compatible(abs) THEN {abs}
        ELSE { d \in ChildrenOf(abs) : Compatible(d) }

(* C14: a folder whose scan fails (it is not a directory, its listing       *)
(* throws) and a candidate whose metadata extraction throws end neither the *)
(* scan nor the process: the step that scans such a folder keeps every      *)
(* descriptor collected so far and goes on to the next folder; when the     *)
(* scan has returned, every folder of the input was gone through, in order, *)
(* and every folder whose scan did not fail has yielded all its compatible  *)
(* plugins, whatever failed before or after it.                             *)
C14_ScanFailuresContained ==
    /\ [][(pc = "scan" /\ fi' # fi) =>
             /\ fi' = fi + 1 /\ pc' = "scan" /\ exit' = << >>
             /\ IsPrefix(allPlugins, allPlugins')
             /\ ScanFails(ScanInput[fi]) => allPlugins' = allPlugins
             /\ Registered' = Append(Registered, ScanInput[fi])]_vars
    /\ [](ScanReturned =>
             /\ Registered = ScanInput
             /\ \A n \in 1..Len(ScanInput) :
                   ~ScanFails(ScanInput[n]) =>
                       Expected(ScanInput[n]) \subseteq
                           { allPlugins[i].path : i \in 1..Len(allPlugins) }
             /\ \A i \in 1..Len(allPlugins) :
                   \E n \in 1..Len(ScanInput) :
                       /\ ~ScanFails(ScanInput[n])
                       /\ allPlugins[i].path \in Expected(ScanInput[n]))

\* the folders /B, /U and A were scanned: the listing of /U threw, and so did
\* the metadata extraction for A/x; the plugins of /B, found before, and of
\* A, found after, are all returned
C14_Witness ==
    /\ pc = "load"
    /\ argv.pluginfolder = Arr(<< Str(PathB), Str(PathU), Str(RelA) >>)
    /\ fs.meta[PathAx] = MetaThrows /\ fs.meta[PathA] = MetaThrows
    /\ PathsOf(allPlugins) = << PathB, PathAy >>

----------------------------------------------------------------------------
\* event n is the verification of a path of the folder f: of f itself or of
\* a directory directly below it
VerifiesIn(n, f) ==
    /\ events[n].e = "verify"
    /\ f.t = "string"
    /\ events[n].path \in {resolve(Cwd, f.v)} \cup ChildrenOf(resolve(Cwd, f.v))

\* the last registration before event n, 0 if there is none
LastRegistration(n) ==
    LET before == { j \in 1..(n - 1) : events[j].e = "register" }
    IN  IF before = {} THEN 0 ELSE CHOOSE j \in before : \A k \in before : k <= j

(* C15: every verification of a candidate comes after the registration of   *)
(* the folder it is scanned for, which is the last registration before it;  *)
(* the whitelist holds the folders registered so far; no registration       *)
(* follows a loadPlugin call, and from the first loadPlugin call on the     *)
(* whitelist is not written.                                                *)
C15_RegisterBeforeVerifyAndLoad ==
    /\ [](/\ \A n \in 1..Len(events) :
                events[n].e = "verify" =>
                    /\ LastRegistration(n) # 0
                    /\ VerifiesIn(n, events[LastRegistration(n)].folder)
          /\ \A i, j \in 1..Len(events) :
                (events[i].e = "load" /\ events[j].e = "register") => j < i
          /\ whitelistedModuleFolders = << Str(Dirname) >> \o Registered
          /\ Loads # << >> => Registered = ScanInput)
    /\ [][Loads' # << >> => whitelistedModuleFolders' = whitelistedModuleFolders]_vars

\* two folders were registered and scanned, and loadPlugin was then called
C15_Witness ==
    /\ Loads # << >>
    /\ Len(Registered) = 2
    /\ \E n \in 1..Len(events) : events[n].e = "verify" /\ LastRegistration(n) > 1
    /\ Len(whitelistedModuleFolders) = 3

----------------------------------------------------------------------------
\* the list without the later occurrences of what it holds more than once
RECURSIVE Dedup(_)
Dedup(list) ==
    IF list = << >> THEN << >>
    ELSE LET rest == Dedup(SubSeq(list, 1, Len(list) - 1))
             last == list[Len(list)]
         IN  IF \E i \in 1..Len(rest) : rest[i] = last THEN rest ELSE Append(rest, last)

\* the folders the scan has gone through so far
Scanned == IF fi = 0 THEN << >> ELSE SubSeq(ScanInput, 1, fi - 1)

(* C16, as stated: registering a root is idempotent; the whitelist is the   *)
(* directory of app.js followed by the scanned folders, a folder that was   *)
(* already registered leaving it unchanged, so that a folder scanned twice  *)
(* is in it once.                                                           *)
C16_RegistrationIdempotent ==
    whitelistedModuleFolders = Dedup(<< Str(Dirname) >> \o Scanned)

(* C16, amended: registering a root appends it whether or not the whitelist *)
(* holds it already, so a folder scanned twice is in the whitelist twice;   *)
(* what is idempotent is the effect: for every directory a module is        *)
(* required from, the search-path filter returns with the whitelist what it *)
(* returns with the whitelist without the repeated entries.                 *)
C16_AppendsAgainSameEffect ==
    /\ [](/\ whitelistedModuleFolders = << Str(Dirname) >> \o Scanned
          /\ \A from \in RequireDirs :
                ModuleNodeModulePaths(from, whitelistedModuleFolders)
                    = ModuleNodeModulePaths(from, Dedup(whitelistedModuleFolders)))
    /\ [][(pc = "scan" /\ fi' = fi + 1) =>
             /\ Len(whitelistedModuleFolders') = Len(whitelistedModuleFolders) + 1
             /\ whitelistedModuleFolders'[Len(whitelistedModuleFolders')] = ScanInput[fi]]_vars

\* the folder /B was scanned twice: the whitelist holds it twice, and a
\* module was required from /B/c with that whitelist
C16_Witness ==
    /\ ScanReturned
    /\ ScanInput = << Str(PathB), Str(PathB) >>
    /\ whitelistedModuleFolders = << Str(Dirname), Str(PathB), Str(PathB) >>
    /\ lookup.from = PathBc
    /\ lookup.whitelist = whitelistedModuleFolders
    /\ lookup.result.paths # << >>

----------------------------------------------------------------------------
\* the names of the scanned plugins that pass the whitelist filter
ListedNames ==
    { allPlugins[i].metadata.name :
        i \in { j \in 1..Len(allPlugins) :
                  ~(shouldWhiteList(argv) /\ NotListed(argv, allPlugins[j].metadata.name)) } }

\* the loadPlugin calls of name that returned
LoadedOf(name) ==
    SelectSeq(LoadsOf(PLUGIN_KEY_PREFIX \o name), LAMBDA ev : ev.loaded)

\* the candidates of name: the scanned plugins of that name
CandidatesOf(name) ==
    { allPlugins[i].path :
        i \in { j \in 1..Len(allPlugins) : allPlugins[j].metadata.name = name } }

\* the paths loadPlugin was called on for name
TriedOf(name) ==
    { LoadsOf(PLUGIN_KEY_PREFIX \o name)[i].plugin.path :
        i \in 1..Len(LoadsOf(PLUGIN_KEY_PREFIX \o name)) }

(* C17: at most one loadPlugin call returns per plugin name, and only for   *)
(* names that pass the whitelist filter; once the load loop is done, every  *)
(* such name was tried, whatever happened to the names before it: its calls *)
(* end with the first that returned, or it has none that returned and every *)
(* candidate of the name was tried; and the loaded count is the number of   *)
(* names with a call that returned.                                         *)
C17_GroupsIndependent ==
    LET listed == ListedNames
        loaded == { name \in ResolveNames : LoadedOf(name) # << >> }
    IN  /\ loaded \subseteq listed
        /\ \A name \in ResolveNames :
              /\ Len(LoadedOf(name)) <= 1
              /\ name \notin listed => LoadsOf(PLUGIN_KEY_PREFIX \o name) = << >>
        /\ totalPluginCount = Cardinality(loaded)
        /\ CallbackDone =>
              /\ Len(pluginMap) = Cardinality(listed)
              /\ \A name \in listed :
                    LET L == LoadsOf(PLUGIN_KEY_PREFIX \o name)
                    IN  /\ L # << >>
                        /\ \A i \in 1..(Len(L) - 1) : ~L[i].loaded
                        /\ ~L[Len(L)].loaded => TriedOf(name) = CandidatesOf(name)

\* two names: every candidate of the first failed to load, the second name
\* was tried all the same and loaded, and the count is 1
C17_Witness ==
    /\ pc = "idle"
    /\ Len(pluginMap) = 2
    /\ Len(pluginMap[1].set) = 2
    /\ Len(LoadsOf(pluginMap[1].key)) = 2
    /\ \A i \in 1..2 : ~LoadsOf(pluginMap[1].key)[i].loaded
    /\ Len(LoadsOf(pluginMap[2].key)) = 1
    /\ LoadsOf(pluginMap[2].key)[1].loaded
    /\ totalPluginCount = 1

----------------------------------------------------------------------------
\* the place of the plugin at path q in the order of discovery
Discovery(q) == CHOOSE i \in 1..Len(allPlugins) : allPlugins[i].path = q

\* the versions of two load records compare equal
Ties(x, y) == compare(x.plugin.metadata.version, y.plugin.metadata.version) = 0

----------------------------------------------------------------------------
\* the process has ended with exit code 0, and not for the usage message
ExitedZero == pc = "exited" /\ exit[1] = 0 /\ ~Truthy(argv.help)

(* C19, as stated: the close timer is started only while the engine runs,   *)
(* and the process ends with exit code 0 only when the start has succeeded  *)
(* and at least one plugin was loaded; a close event that arrives while the *)
(* start is pending does not lead to an exit with code 0.                   *)
C19_ExitZeroOnlyFromRunning ==
    /\ timers # {} => (pc = "exited" \/ deferred.state = "resolved")
    /\ ExitedZero => deferred.state = "resolved" /\ totalPluginCount >= 1

(* C19, amended: the close handler is registered before the start, so a     *)
(* close event starts the close timer while the start is pending as well as *)
(* while the engine runs; the process ends with exit code 0 only through a  *)
(* close timer that is due (or for the usage message), and then either the  *)
(* start has succeeded with at least one plugin loaded, or the start is     *)
(* still pending and nothing was scanned or loaded; after a failed start or *)
(* a start with no plugin loaded the exit code is never 0.                  *)
C19_ExitZeroThroughCloseTimer ==
    /\ [](/\ (Starting /\ timers = {}) => ENABLED Close
          /\ (Running /\ timers = {}) => ENABLED Close
          /\ ExitedZero =>
                /\ exit = CloseExit
                /\ \E d \in timers : d <= now
                /\ \/ deferred.state = "resolved" /\ totalPluginCount >= 1
                   \/ deferred.state = "pending" /\ events = << >> /\ totalPluginCount = 0
          /\ (pc = "exited" /\ deferred.state = "rejected") => exit[1] = ExitInitFailed)
    /\ [][timers' # timers => (Starting \/ Running) /\ pc' = pc]_vars

\* a close event arrived while the start was pending, the start stayed
\* pending for the 1000 time units, and the process ended with exit code 0
C19_Witness ==
    /\ pc = "exited"
    /\ exit = CloseExit
    /\ deferred.state = "pending"
    /\ events = << >>
    /\ totalPluginCount = 0

----------------------------------------------------------------------------
(* C20: the step that scans a folder appends that folder to the whitelist   *)
(* as it was given on the command line (a relative path stays relative, a   *)
(* value that is no string stays what it is), also when the folder is not a *)
(* directory or its scan throws; so the whitelist is the directory of       *)
(* app.js followed by the folders scanned so far, and no step removes or    *)
(* changes an entry.                                                        *)
C20_FolderAppendedAsGiven ==
    /\ [](whitelistedModuleFolders = << Str(Dirname) >> \o Scanned)
    /\ [][(pc = "scan" /\ fi' # fi) =>
             /\ whitelistedModuleFolders' =
                    whitelistedModuleFolders
                        \o << IF argv.pluginfolder.t = "array"
                              THEN argv.pluginfolder.v[fi]
                              ELSE argv.pluginfolder >>
             /\ ScanFails(ScanInput[fi]) =>
                    whitelistedModuleFolders'[Len(whitelistedModuleFolders')]
                        = ScanInput[fi]]_vars
    /\ [][IsPrefix(whitelistedModuleFolders, whitelistedModuleFolders')]_vars

\* the file /F and the relative folder A were scanned: the whitelist holds
\* both as given, the file that was skipped and the path A unresolved
C20_Witness ==
    /\ ScanReturned
    /\ argv.pluginfolder = Arr(<< Str(PathF), Str(RelA) >>)
    /\ PathF \notin fs.dirs
    /\ resolve(Cwd, RelA) # RelA
    /\ whitelistedModuleFolders = << Str(Dirname), Str(PathF), Str(RelA) >>

====
